---- MODULE Spec2Model ----
(***************************************************************************)
(* Model of src/Utils/createAnimatedWrapper.js: the style filters          *)
(* (getFilteredStyle and its three instances), the numeric-key test        *)
(* isNumber, the animated type factory createAnimated and the three-level  *)
(* composition createAnimatedWrapper, together with a caller that renders  *)
(* component descriptors and owns a cache of animated container types.     *)
(***************************************************************************)
EXTENDS Integers, Sequences, FiniteSets, TLC

VARIABLES
  args,      \* the arguments of the pending / last createAnimatedWrapper call
  result,    \* the element returned by that call (NoResult while pending)
  nCreated,  \* how many animated types Animated.createAnimatedComponent made
  cache      \* the caller's cache of animated container types

vars == <<args, result, nCreated, cache>>

(***************************************************************************)
(* JavaScript values.  Every value is a record with a kind, objects and    *)
(* arrays also carry the site that allocated them, which is what two       *)
(* references to "the same object" share.                                  *)
(***************************************************************************)
Undefined == [kind |-> "undefined"]
Str(t) == [kind |-> "string", text |-> t]
Bool(b) == [kind |-> "boolean", val |-> b]
Fn(n) == [kind |-> "function", name |-> n]
MapObj(f, site) == [kind |-> "object", alloc |-> site, map |-> f]
ArrObj(s, site) == [kind |-> "array", alloc |-> site, items |-> s]
AnimatedType(n) == [kind |-> "animated", id |-> n]
ComponentType(n) == [kind |-> "component", name |-> n]

\* JavaScript truthiness, as used by  !styles,  if (s),  a || b,  if (component.key)
Truthy(v) ==
  CASE v.kind = "undefined" -> FALSE
    [] v.kind = "string" -> v.text # ""
    [] v.kind = "boolean" -> v.val
    [] OTHER -> TRUE

\* flattenedStyle instanceof Array
InstanceOfArray(v) == v.kind = "array"

\* obj.field of a props object: undefined when the object has no such key
Get(obj, field) == IF field \in DOMAIN obj THEN obj[field] ELSE Undefined

EmptyMap == [k \in {} |-> "a"]

(***************************************************************************)
(* The three classification tables.                                        *)
(***************************************************************************)
excludePropsForComponent ==
  { "display", "start", "end", "top", "left", "right", "bottom",
    "minWidth", "maxWidth", "minHeight", "maxHeight",
    "margin", "marginVertical", "marginHorizontal", "marginTop",
    "marginBottom", "marginLeft", "marginRight", "marginStart", "marginEnd",
    "padding", "paddingVertical", "paddingHorizontal", "paddingTop",
    "paddingBottom", "paddingLeft", "paddingRight", "paddingStart",
    "paddingEnd", "position", "flexWrap", "flex", "flexGrow", "flexShrink",
    "flexBasis", "alignSelf", "aspectRatio", "zIndex", "direction",
    "transform", "transformMatrix", "decomposedMatrix", "scaleX", "scaleY",
    "rotation", "translateX", "translateY", "backfaceVisibility",
    "backgroundColor", "borderColor", "borderTopColor", "borderRightColor",
    "borderBottomColor", "borderLeftColor", "borderStartColor",
    "borderEndColor", "borderRadius", "borderTopLeftRadius",
    "borderTopRightRadius", "borderTopStartRadius", "borderTopEndRadius",
    "borderBottomLeftRadius", "borderBottomRightRadius",
    "borderBottomStartRadius", "borderBottomEndRadius", "borderStyle" }

includePropsForNativeStyles ==
  { "display", "width", "height", "start", "end", "top", "left", "right",
    "bottom", "minWidth", "maxWidth", "minHeight", "maxHeight",
    "margin", "marginVertical", "marginHorizontal", "marginTop",
    "marginBottom", "marginLeft", "marginRight", "marginStart", "marginEnd",
    "position", "flexDirection", "flexWrap", "flex", "flexGrow",
    "flexShrink", "flexBasis", "alignSelf", "aspectRatio", "zIndex",
    "direction", "transform" }

\* fault: excludePropsForStyles with its commented-out "flex" entry put back
MutExcludePropsForStylesWithFlex ==
  { "display", "start", "end", "top", "left", "right", "bottom",
    "minWidth", "maxWidth", "minHeight", "maxHeight",
    "margin", "marginVertical", "marginHorizontal", "marginTop",
    "marginBottom", "marginLeft", "marginRight", "marginStart", "marginEnd",
    "position", "alignSelf", "alignContent", "overflow", "flex", "flexGrow",
    "flexShrink", "flexBasis", "aspectRatio", "zIndex", "direction",
    "transform", "transformMatrix", "decomposedMatrix", "scaleX", "scaleY",
    "rotation", "translateX", "translateY", "textAlign" }

excludePropsForStyles ==
  { "display", "start", "end", "top", "left", "right", "bottom",
    "minWidth", "maxWidth", "minHeight", "maxHeight",
    "margin", "marginVertical", "marginHorizontal", "marginTop",
    "marginBottom", "marginLeft", "marginRight", "marginStart", "marginEnd",
    "position", "alignSelf", "alignContent", "overflow", "flexGrow",
    "flexShrink", "flexBasis", "aspectRatio", "zIndex", "direction",
    "transform", "transformMatrix", "decomposedMatrix", "scaleX", "scaleY",
    "rotation", "translateX", "translateY", "textAlign" }

(***************************************************************************)
(* isNumber(n) = !isNaN(parseFloat(n)) && !isNaN(n - 0), on the characters *)
(* of the key.                                                             *)
(***************************************************************************)
Digits == {"0", "1", "2", "3", "4", "5", "6", "7", "8", "9"}
HexDigits == Digits \cup {"a", "b", "c", "d", "e", "f", "A", "B", "C", "D", "E", "F"}
WhiteSpace == {" "}
Signs == {"+", "-"}
InfinityText == <<"I", "n", "f", "i", "n", "i", "t", "y">>

\* the characters of the property names the model feeds to the filters
KeyText(key) ==
  CASE key = "transform" -> <<"t", "r", "a", "n", "s", "f", "o", "r", "m">>
    [] key = "flex" -> <<"f", "l", "e", "x">>
    [] key = "backgroundColor" ->
         <<"b", "a", "c", "k", "g", "r", "o", "u", "n", "d", "C", "o", "l", "o", "r">>
    [] key = "width" -> <<"w", "i", "d", "t", "h">>
    [] key = "overflow" -> <<"o", "v", "e", "r", "f", "l", "o", "w">>
    [] key = "opacity" -> <<"o", "p", "a", "c", "i", "t", "y">>
    [] key = "scaleX" -> <<"s", "c", "a", "l", "e", "X">>
    [] key = "0" -> <<"0">>
    [] key = "1" -> <<"1">>
    [] key = "1.5" -> <<"1", ".", "5">>
    [] key = "1e3" -> <<"1", "e", "3">>
    [] key = "0x1f" -> <<"0", "x", "1", "f">>
    [] key = "1px" -> <<"1", "p", "x">>
    [] key = "e1" -> <<"e", "1">>

\* s[i], or the empty text past the end
CharAt(s, i) == IF i \in 1..Len(s) THEN s[i] ELSE ""

\* true when text t occurs in s at position i
StartsWithAt(s, i, t) ==
  /\ i + Len(t) - 1 <= Len(s)
  /\ \A j \in 1..Len(t) : s[i + j - 1] = t[j]

\* the number of leading characters of s, from position i on, that are in set
RECURSIVE RunLength(_, _, _)
RunLength(s, i, set) ==
  IF CharAt(s, i) \in set THEN 1 + RunLength(s, i + 1, set) ELSE 0

\* s without its leading and trailing white space
TrimLeft(s) == SubSeq(s, 1 + RunLength(s, 1, WhiteSpace), Len(s))
RECURSIVE TrimRight(_)
TrimRight(s) ==
  IF Len(s) > 0 /\ s[Len(s)] \in WhiteSpace THEN TrimRight(SubSeq(s, 1, Len(s) - 1)) ELSE s

\* isNaN(parseFloat(s)): after leading white space and an optional sign there
\* is neither a digit, nor a dot followed by a digit, nor Infinity
ParseFloatIsNaN(s) ==
  LET t == TrimLeft(s)
      i == IF CharAt(t, 1) \in Signs THEN 2 ELSE 1
  IN  ~ \/ CharAt(t, i) \in Digits
        \/ CharAt(t, i) = "." /\ CharAt(t, i + 1) \in Digits
        \/ StartsWithAt(t, i, InfinityText)

\* s is a StrDecimalLiteral in full: [sign] (Infinity | digits[.digits][exp] | .digits[exp])
IsStrDecimalLiteral(s) ==
  LET i0 == IF CharAt(s, 1) \in Signs THEN 2 ELSE 1
      d1 == RunLength(s, i0, Digits)
      i1 == i0 + d1
      dot == CharAt(s, i1) = "."
      d2 == IF dot THEN RunLength(s, i1 + 1, Digits) ELSE 0
      i2 == IF dot THEN i1 + 1 + d2 ELSE i1
      exp == CharAt(s, i2) \in {"e", "E"}
      i3 == IF CharAt(s, i2 + 1) \in Signs THEN i2 + 2 ELSE i2 + 1
      d3 == IF exp THEN RunLength(s, i3, Digits) ELSE 0
      end == IF exp THEN i3 + d3 ELSE i2
  IN  \/ /\ StartsWithAt(s, i0, InfinityText)
         /\ Len(s) = i0 + Len(InfinityText) - 1
      \/ /\ d1 + d2 >= 1
         /\ exp => d3 >= 1
         /\ end = Len(s) + 1

\* s is 0x.., 0o.. or 0b.. in full
IsNonDecimalIntegerLiteral(s) ==
  /\ Len(s) >= 3
  /\ s[1] = "0"
  /\ \/ s[2] \in {"x", "X"} /\ RunLength(s, 3, HexDigits) = Len(s) - 2
     \/ s[2] \in {"o", "O"} /\ RunLength(s, 3, {"0", "1", "2", "3", "4", "5", "6", "7"}) = Len(s) - 2
     \/ s[2] \in {"b", "B"} /\ RunLength(s, 3, {"0", "1"}) = Len(s) - 2

\* isNaN(s - 0): ToNumber of the trimmed text; the empty text is 0
ToNumberIsNaN(s) ==
  LET t == TrimRight(TrimLeft(s))
  IN  ~ \/ Len(t) = 0
        \/ IsStrDecimalLiteral(t)
        \/ IsNonDecimalIntegerLiteral(t)

\* fault: no key is taken for a number
MutIsNumberNever(key) == FALSE

isNumber(key) == ~ParseFloatIsNaN(KeyText(key)) /\ ~ToNumberIsNaN(KeyText(key))


(***************************************************************************)
(* getFilteredStyle and its three instances.  The predicate argument is    *)
(* named by the instance that passes it: "native", "animated", "component".*)
(***************************************************************************)
\* fault: getAnimatableStyles tests excludePropsForComponent
MutShouldIncludeKeyWrongTable(which, key) ==
  CASE which = "native" -> key \in includePropsForNativeStyles
    [] which = "animated" -> key \notin excludePropsForComponent
    [] which = "component" -> key \notin excludePropsForComponent

shouldIncludeKey(which, key) ==
  CASE which = "native" -> key \in includePropsForNativeStyles
    [] which = "animated" -> key \notin excludePropsForStyles
    [] which = "component" -> key \notin excludePropsForComponent

\* Object.keys(s) of an entry of the flattened array
ObjectKeys(s) == IF s.kind = "object" THEN DOMAIN s.map ELSE {}

\* fault: a key already in retVal keeps its first value
MutAssignFirstWins(s, retVal, which) ==
  LET accepted == {key \in ObjectKeys(s) : ~isNumber(key) /\ shouldIncludeKey(which, key)}
  IN  [key \in DOMAIN retVal \cup accepted |->
         IF key \in DOMAIN retVal THEN retVal[key] ELSE s.map[key]]

\* keys.forEach(key => { if (!isNumber(key) && shouldIncludeKey(key)) retVal[key] = s[key] })
assignKeys(s, retVal, which) ==
  LET accepted == {key \in ObjectKeys(s) : ~isNumber(key) /\ shouldIncludeKey(which, key)}
  IN  [key \in DOMAIN retVal \cup accepted |->
         IF key \in accepted THEN s.map[key] ELSE retVal[key]]

\* flattenedStyle.forEach(s => { if (s) { ... } }), from entry i on
RECURSIVE forEachStyle(_, _, _, _)
forEachStyle(items, i, retVal, which) ==
  IF i > Len(items) THEN retVal
  ELSE forEachStyle(items, i + 1,
         IF Truthy(items[i]) THEN assignKeys(items[i], retVal, which) ELSE retVal,
         which)

\* fault: the input is returned whenever retVal stays empty
MutFilterReturnsEmptyInput(styles, which) ==
  IF ~Truthy(styles) THEN styles
  ELSE LET items == IF InstanceOfArray(styles) THEN styles.items ELSE <<styles>>
           retVal == forEachStyle(items, 1, EmptyMap, which)
       IN  IF retVal = EmptyMap THEN styles ELSE MapObj(retVal, "getFilteredStyle")

\* Every accepted style input that is not falsy is an object or an array, so
\* the StyleSheet.flatten branch (non-object input) is never taken and
\* flattenedStyle is styles itself.
getFilteredStyle(styles, which) ==
  IF ~Truthy(styles) THEN styles
  ELSE LET flattenedStyle == styles
           items == IF InstanceOfArray(flattenedStyle)
                    THEN flattenedStyle.items ELSE <<flattenedStyle>>
       IN  MapObj(forEachStyle(items, 1, EmptyMap, which), "getFilteredStyle")

getNativeAnimatableStyles(styles) == getFilteredStyle(styles, "native")
getAnimatableStyles(styles) == getFilteredStyle(styles, "animated")
getComponentStyles(styles) == getFilteredStyle(styles, "component")

(***************************************************************************)
(* createAnimated and createAnimatedWrapper.                               *)
(***************************************************************************)
\* fault: one shared animated type instead of a new one per call
MutCreateAnimatedShared(n) == AnimatedType(1)

\* Animated.createAnimatedComponent builds a new component class on every
\* call: the n+1-th type when n were made before
createAnimated(n) == AnimatedType(n + 1)

\* the record of React.createElement's three arguments
createElement(type, props, child) ==
  [kind |-> "element", type |-> type, props |-> props, child |-> child]

\* nativeCached || createAnimated()
nativeAnimatedComponent(nativeCached, n) ==
  IF Truthy(nativeCached) THEN nativeCached ELSE createAnimated(n)

\* cached || createAnimated(), n being the count after the native one
animatedComponent(cached, n) ==
  IF Truthy(cached) THEN cached ELSE createAnimated(n)

\* fault: the props spread is lost
MutInnerPropsStyleOnly(component, componentStyles) == [style |-> componentStyles]

\* { ...component.props, style: componentStyles }
innerProps(component, componentStyles) ==
  ("style" :> componentStyles) @@ component.props

\* fault: { overflow: 'hidden' } put first, where later entries override it
MutOverflowFirst(animatedStyles, styles) ==
  ArrObj(<<MapObj([overflow |-> "hidden"], "createAnimatedWrapper"),
           animatedStyles, styles>>, "createAnimatedWrapper")

\* [animatedStyles, styles, { overflow: 'hidden' }]
animatedElementStyle(animatedStyles, styles) ==
  ArrObj(<<animatedStyles, styles,
           MapObj([overflow |-> "hidden"], "createAnimatedWrapper")>>,
         "createAnimatedWrapper")

\* the props of the outer wrapper, with key, ref and onLayout added when truthy
outerProps(component, nativeAnimatedStyles, nativeStyles) ==
  LET p0 == [collapsable |-> Bool(FALSE),
             style |-> ArrObj(<<nativeAnimatedStyles, nativeStyles>>,
                              "createAnimatedWrapper")]
      p1 == IF Truthy(component.key) THEN ("key" :> component.key) @@ p0 ELSE p0
      p2 == IF Truthy(component.ref) THEN ("ref" :> component.ref) @@ p1 ELSE p1
      p3 == IF Truthy(component.onLayout)
            THEN ("onLayout" :> component.onLayout) @@ p2 ELSE p2
  IN  p3

\* the number of types a call makes
typesNeeded(nativeCached, cached) ==
  (IF Truthy(nativeCached) THEN 0 ELSE 1) + (IF Truthy(cached) THEN 0 ELSE 1)

\* the element createAnimatedWrapper returns when n types were made before
createAnimatedWrapper(component, nativeStyles, styles, nativeCached, cached, n) ==
  LET nativeType == nativeAnimatedComponent(nativeCached, n)
      n1 == IF Truthy(nativeCached) THEN n ELSE n + 1
      animatedType == animatedComponent(cached, n1)
      nativeAnimatedStyles == getNativeAnimatableStyles(Get(component.props, "style"))
      animatedStyles == getAnimatableStyles(Get(component.props, "style"))
      componentStyles == getComponentStyles(Get(component.props, "style"))
      innerElement == createElement(component.type,
                                    innerProps(component, componentStyles), Undefined)
      animatedElement == createElement(animatedType,
                           [style |-> animatedElementStyle(animatedStyles, styles)],
                           innerElement)
  IN  createElement(nativeType,
                    outerProps(component, nativeAnimatedStyles, nativeStyles),
                    animatedElement)


(***************************************************************************)
(* The inputs the caller draws from.                                       *)
(***************************************************************************)
MaxLen == 2      \* longest style sequence
MaxTypes == 3    \* animated types made in one run

Values == {"a", "b"}
NamedKeys == {"transform", "flex", "backgroundColor", "width", "overflow",
              "opacity", "scaleX"}
LexicalKeys == {"0", "1", "1.5", "1e3", "0x1f", "1px", "e1"}
StyleKeys == NamedKeys \cup LexicalKeys

SampleStyle == [transform |-> "a", backgroundColor |-> "b", flex |-> "a"]

Mappings ==
  {EmptyMap, SampleStyle}
    \cup {k :> v : k \in NamedKeys, v \in Values}
    \cup {k :> "a" : k \in LexicalKeys}

Entries == {Undefined} \cup {MapObj(f, "caller") : f \in Mappings}

StyleSequences == UNION {[1..n -> Entries] : n \in 0..MaxLen}

\* a mapping, a sequence of mappings or falsy entries, or absent
StyleInputs ==
  {Undefined} \cup {MapObj(f, "caller") : f \in Mappings}
              \cup {ArrObj(s, "caller") : s \in StyleSequences}

\* the style inputs of the composition runs
WrapStyles ==
  { Undefined,
    MapObj(SampleStyle, "caller"),
    MapObj([overflow |-> "visible", opacity |-> "a"], "caller"),
    ArrObj(<<MapObj(SampleStyle, "caller"), Undefined,
             MapObj([flex |-> "b", width |-> "a"], "caller")>>, "caller") }

ExtraStyles == {Undefined, MapObj([overflow |-> "visible", opacity |-> "b"], "caller")}

BaseProps ==
  { [children |-> Str("Hello World")],
    [children |-> Str("Hello World"), onLayout |-> Fn("handleLayout")] }

\* props with the style, or without a style key when the style is absent
PropsWith(base, style) ==
  IF style = Undefined THEN base ELSE ("style" :> style) @@ base

Components(styles) ==
  { [type |-> ComponentType("View"), key |-> k, ref |-> r, onLayout |-> l,
     props |-> PropsWith(b, s)] :
      k \in {Undefined, Str(""), Str("k1")},
      r \in {Undefined, Fn("setRef")},
      l \in {Undefined, Fn("handleLayout")},
      b \in BaseProps,
      s \in styles }

PlainComponents(styles) ==
  { [type |-> ComponentType("View"), key |-> Undefined, ref |-> Undefined,
     onLayout |-> Undefined, props |-> PropsWith([children |-> Str("Hello World")], s)] :
      s \in styles }

NoArgs == [kind |-> "none"]
NoResult == [kind |-> "none"]
EmptyCache == [native |-> Undefined, general |-> Undefined]

(***************************************************************************)
(* The state machine.                                                      *)
(***************************************************************************)
Init ==
  /\ args = NoArgs
  /\ result = NoResult
  /\ nCreated = 0
  /\ cache = EmptyCache

\* the caller evaluates the arguments of a call and enters createAnimatedWrapper
Render(component, nativeStyles, styles, nativeCached, cached) ==
  /\ args = NoArgs
  /\ nCreated + typesNeeded(nativeCached, cached) <= MaxTypes
  /\ args' = [component |-> component, nativeStyles |-> nativeStyles,
              styles |-> styles, nativeCached |-> nativeCached, cached |-> cached]
  /\ UNCHANGED <<result, nCreated, cache>>

\* fault: the filtered style is written into component.props in place
MutWrapWritesComponent ==
  /\ args # NoArgs
  /\ result = NoResult
  /\ result' = createAnimatedWrapper(args.component, args.nativeStyles, args.styles,
                                     args.nativeCached, args.cached, nCreated)
  /\ nCreated' = nCreated + typesNeeded(args.nativeCached, args.cached)
  /\ args' = [args EXCEPT !.component.props =
                innerProps(args.component, getComponentStyles(Get(args.component.props, "style")))]
  /\ UNCHANGED cache

\* the body of createAnimatedWrapper, from entry to return
Wrap ==
  /\ args # NoArgs
  /\ result = NoResult
  /\ result' = createAnimatedWrapper(args.component, args.nativeStyles, args.styles,
                                     args.nativeCached, args.cached, nCreated)
  /\ nCreated' = nCreated + typesNeeded(args.nativeCached, args.cached)
  /\ UNCHANGED <<args, cache>>

\* the caller takes the returned element and, when it keeps a cache, stores
\* the element's two container types in it
Mount(keep) ==
  /\ result # NoResult
  /\ cache' = IF keep THEN [native |-> result.type, general |-> result.child.type]
              ELSE cache
  /\ args' = NoArgs
  /\ result' = NoResult
  /\ UNCHANGED nCreated

\* the caller makes a container type of its own with the exported createAnimated
CallerCreateAnimated(role) ==
  /\ args = NoArgs
  /\ nCreated < MaxTypes
  /\ cache' = [cache EXCEPT ![role] = createAnimated(nCreated)]
  /\ nCreated' = nCreated + 1
  /\ UNCHANGED <<args, result>>

\* the caller drops its cache
DropCache ==
  /\ args = NoArgs
  /\ cache # EmptyCache
  /\ cache' = EmptyCache
  /\ UNCHANGED <<args, result, nCreated>>

RenderAny ==
  \E component \in Components(WrapStyles), nativeStyles \in ExtraStyles,
     styles \in ExtraStyles,
     nativeCached \in {Undefined, cache.native}, cached \in {Undefined, cache.general} :
    Render(component, nativeStyles, styles, nativeCached, cached)

RenderStyle ==
  \E component \in PlainComponents(StyleInputs) :
    Render(component, Undefined, Undefined, Undefined, Undefined)

CallerCreates == \E role \in {"native", "general"} : CallerCreateAnimated(role)

Mounts == \E keep \in BOOLEAN : Mount(keep)

Next == RenderAny \/ Wrap \/ Mounts \/ CallerCreates \/ DropCache

Spec == Init /\ [][Next]_vars

NextStyle == RenderStyle \/ Wrap

SpecStyle == Init /\ [][NextStyle]_vars


(***************************************************************************)
(* What the properties below read from a state.                            *)
(***************************************************************************)
Returned == result # NoResult
styleIn == Get(args.component.props, "style")
nativeBucket == result.props.style.items[1]
generalBucket == result.child.props.style.items[1]
leaf == result.child.child
staticBucket == leaf.props.style
Bucket(which) ==
  CASE which = "native" -> nativeBucket
    [] which = "animated" -> generalBucket
    [] which = "component" -> staticBucket
Buckets == {"native", "animated", "component"}
BucketKeys(b) == IF b.kind = "object" THEN DOMAIN b.map ELSE {}

\* the table rule of each bucket, read off the tables
TableAccepts(which, k) ==
  CASE which = "native" -> k \in includePropsForNativeStyles
    [] which = "animated" -> k \notin excludePropsForStyles
    [] which = "component" -> k \notin excludePropsForComponent

\* the keys of the model that are numeric strings, and those that are not
NumericKeys == {"0", "1", "1.5", "1e3", "0x1f"}
NonNumericKeys == StyleKeys \ NumericKeys

\* last-write-wins flattening of a style input, stated per key
ItemsOf(st) ==
  CASE st.kind = "array" -> st.items
    [] st.kind = "object" -> <<st>>
    [] OTHER -> <<>>
Defines(items, i, k) == items[i].kind = "object" /\ k \in DOMAIN items[i].map
FlatKeys(st) ==
  {k \in StyleKeys : \E i \in 1..Len(ItemsOf(st)) : Defines(ItemsOf(st), i, k)}
FlatValue(st, k) ==
  LET items == ItemsOf(st)
      last == CHOOSE i \in 1..Len(items) :
                /\ Defines(items, i, k)
                /\ \A j \in (i + 1)..Len(items) : ~Defines(items, j, k)
  IN  items[last].map[k]

\* items with entry e put after position i
InsertAt(items, i, e) ==
  SubSeq(items, 1, i) \o <<e>> \o SubSeq(items, i + 1, Len(items))

\* a step in which createAnimatedWrapper returns
WrapStep == result = NoResult /\ result' # NoResult

(***************************************************************************)
(* C1: for every non-numeric key k of the flattened component style, k is  *)
(* in the fast-driver bucket iff it is in includePropsForNativeStyles, in  *)
(* the general-driver bucket iff it is not in excludePropsForStyles, in    *)
(* the static bucket iff it is not in excludePropsForComponent; no bucket  *)
(* holds a key the flattened style lacks, and each bucket gives k the      *)
(* value the flattened style gives it.                                     *)
(***************************************************************************)
C1_BucketsFollowTables ==
  Returned =>
    \A which \in Buckets :
      /\ \A k \in FlatKeys(styleIn) \cap NonNumericKeys :
           k \in BucketKeys(Bucket(which)) <=> TableAccepts(which, k)
      /\ BucketKeys(Bucket(which)) \subseteq FlatKeys(styleIn)
      /\ \A k \in BucketKeys(Bucket(which)) :
           Bucket(which).map[k] = FlatValue(styleIn, k)

C1_Witness ==
  /\ Returned
  /\ styleIn.kind = "array"
  /\ "transform" \in BucketKeys(nativeBucket)
  /\ "backgroundColor" \in BucketKeys(generalBucket)
  /\ "opacity" \in BucketKeys(staticBucket)
  /\ "opacity" \notin BucketKeys(nativeBucket)

(***************************************************************************)
(* C2, as amended: for a style defining transform, backgroundColor and     *)
(* flex, the fast-driver bucket holds transform and flex, the              *)
(* general-driver bucket holds backgroundColor and flex but not transform, *)
(* and the static bucket holds none of the three.                          *)
(***************************************************************************)
HasSampleKeys ==
  Returned /\ {"transform", "backgroundColor", "flex"} \subseteq FlatKeys(styleIn)

C2_SampleBuckets ==
  HasSampleKeys =>
    /\ {"transform", "flex"} \subseteq BucketKeys(nativeBucket)
    /\ {"backgroundColor", "flex"} \subseteq BucketKeys(generalBucket)
    /\ "transform" \notin BucketKeys(generalBucket)
    /\ BucketKeys(staticBucket) \cap {"transform", "flex", "backgroundColor"} = {}

\* C2 as the claim states it: the general-driver bucket holds neither
\* transform nor flex
C2_Original ==
  HasSampleKeys =>
    /\ {"transform", "flex"} \subseteq BucketKeys(nativeBucket)
    /\ "backgroundColor" \in BucketKeys(generalBucket)
    /\ BucketKeys(generalBucket) \cap {"transform", "flex"} = {}
    /\ BucketKeys(staticBucket) \cap {"transform", "flex", "backgroundColor"} = {}

C2_Witness == HasSampleKeys /\ styleIn.kind = "object"

(***************************************************************************)
(* C3: for each of key, ref and onLayout the outer wrapper's props hold    *)
(* the field iff the original component has it, with the original's value, *)
(* also when the value present is falsy.                                   *)
(***************************************************************************)
C3_ForwardingMirrorsPresence ==
  Returned =>
    \A f \in {"key", "ref", "onLayout"} :
      /\ f \in DOMAIN result.props <=> args.component[f] # Undefined
      /\ f \in DOMAIN result.props => result.props[f] = args.component[f]

(***************************************************************************)
(* C4: for a sequence input each bucket gives a key the value of the last  *)
(* mapping of the sequence that defines it, and putting an empty mapping   *)
(* or a falsy entry anywhere in the sequence changes no bucket.            *)
(***************************************************************************)
C4_LastWriteWins ==
  Returned /\ styleIn.kind = "array" =>
    \A which \in Buckets :
      /\ \A k \in BucketKeys(Bucket(which)) :
           Bucket(which).map[k] = FlatValue(styleIn, k)
      /\ \A i \in 0..Len(styleIn.items) :
           \A e \in {Undefined, MapObj(EmptyMap, "caller")} :
             getFilteredStyle(ArrObj(InsertAt(styleIn.items, i, e), "caller"), which)
               = Bucket(which)

C4_Witness ==
  /\ Returned
  /\ styleIn.kind = "array"
  /\ Len(styleIn.items) = 2
  /\ Defines(styleIn.items, 1, "opacity")
  /\ Defines(styleIn.items, 2, "opacity")
  /\ styleIn.items[1].map["opacity"] = "a"
  /\ generalBucket.map["opacity"] = "b"

(***************************************************************************)
(* C5: the general-driver container's style is exactly the sequence        *)
(* general bucket, the caller's general styles, {overflow: 'hidden'}, so   *)
(* that its last-write-wins flattening always has overflow hidden.         *)
(***************************************************************************)
C5_OverflowForced ==
  Returned =>
    /\ result.child.props.style.kind = "array"
    /\ result.child.props.style.items =
         <<getAnimatableStyles(styleIn), args.styles,
           MapObj([overflow |-> "hidden"], "createAnimatedWrapper")>>
    /\ "overflow" \in FlatKeys(result.child.props.style)
    /\ FlatValue(result.child.props.style, "overflow") = "hidden"

C5_Witness ==
  /\ Returned
  /\ "overflow" \in FlatKeys(styleIn)
  /\ "overflow" \in FlatKeys(args.styles)
  /\ FlatValue(args.styles, "overflow") = "visible"

(***************************************************************************)
(* C6: with an absent style the call returns, without failing, a fast      *)
(* container holding a general container holding the re-created original;  *)
(* the three buckets are absent and the leaf's props other than style are  *)
(* the original's.                                                         *)
(***************************************************************************)
C6_AbsentStyle ==
  /\ (args # NoArgs /\ result = NoResult /\ styleIn = Undefined) => ENABLED Wrap
  /\ (Returned /\ styleIn = Undefined) =>
       /\ result.type.kind = "animated"
       /\ result.child.kind = "element"
       /\ result.child.type.kind = "animated"
       /\ leaf.kind = "element"
       /\ leaf.type = args.component.type
       /\ leaf.child = Undefined
       /\ \A which \in Buckets : BucketKeys(Bucket(which)) = {}
       /\ DOMAIN leaf.props \ {"style"} = DOMAIN args.component.props \ {"style"}
       /\ \A p \in DOMAIN args.component.props \ {"style"} :
            leaf.props[p] = args.component.props[p]

C6_Witness ==
  /\ Returned
  /\ styleIn = Undefined
  /\ "onLayout" \in DOMAIN args.component.props
  /\ nativeBucket = Undefined


(***************************************************************************)
(* C7: in every call a container type the caller supplies is the type of   *)
(* the root (fast) or middle (general) element and no type is made for     *)
(* that role; a role not supplied gets a type made by createAnimated that  *)
(* no earlier call made and that differs from the other role's type; the   *)
(* call leaves the caller's cache as it is.                                *)
(***************************************************************************)
C7_ContainerTypes ==
  [][WrapStep =>
       /\ Truthy(args.nativeCached) => result'.type = args.nativeCached
       /\ ~Truthy(args.nativeCached) =>
            /\ result'.type.kind = "animated"
            /\ result'.type.id \notin 1..nCreated
            /\ result'.type.id \in 1..nCreated'
            /\ result'.type # result'.child.type
       /\ Truthy(args.cached) => result'.child.type = args.cached
       /\ ~Truthy(args.cached) =>
            /\ result'.child.type.kind = "animated"
            /\ result'.child.type.id \notin 1..nCreated
            /\ result'.child.type.id \in 1..nCreated'
            /\ result'.child.type # result'.type
       /\ nCreated' - nCreated =
            Cardinality({r \in {"nativeCached", "cached"} : ~Truthy(args[r])})
       /\ cache' = cache]_vars

C7_Witness ==
  /\ Returned
  /\ Truthy(args.nativeCached)
  /\ ~Truthy(args.cached)
  /\ result.type = args.nativeCached
  /\ result.child.type = AnimatedType(nCreated)
  /\ cache.native = args.nativeCached

(***************************************************************************)
(* C8: keys that are numeric strings are in none of the three buckets,     *)
(* whatever the tables say about them, and every other key is in a bucket  *)
(* exactly when the bucket's table rule accepts it.                        *)
(***************************************************************************)
C8_NumericKeysDropped ==
  Returned =>
    \A which \in Buckets :
      /\ BucketKeys(Bucket(which)) \cap NumericKeys = {}
      /\ \A k \in FlatKeys(styleIn) \cap NonNumericKeys :
           k \in BucketKeys(Bucket(which)) <=> TableAccepts(which, k)

C8_Witness ==
  /\ Returned
  /\ styleIn.kind = "array"
  /\ "1e3" \in FlatKeys(styleIn)
  /\ "1px" \in FlatKeys(styleIn)
  /\ TableAccepts("animated", "1e3")
  /\ "1px" \in BucketKeys(generalBucket)
  /\ "1px" \notin BucketKeys(nativeBucket)

(***************************************************************************)
(* C9, as amended: getFilteredStyle returns the input itself only when the *)
(* input is absent; for every mapping or sequence, the empty mapping, the  *)
(* empty sequence and a sequence of only falsy or empty entries included,  *)
(* it returns a newly built mapping holding exactly the non-numeric keys   *)
(* of the input that the predicate accepts.                                *)
(***************************************************************************)
AcceptedKeys(which) ==
  {k \in FlatKeys(styleIn) \cap NonNumericKeys : TableAccepts(which, k)}

C9_ReturnsNewMapping ==
  Returned =>
    \A which \in Buckets :
      IF ~Truthy(styleIn)
      THEN Bucket(which) = styleIn
      ELSE /\ Bucket(which).kind = "object"
           /\ Bucket(which).alloc = "getFilteredStyle"
           /\ DOMAIN Bucket(which).map = AcceptedKeys(which)

\* C9 as the claim states it: the input itself comes back whenever its
\* flattening is empty or absent
C9_Original ==
  Returned =>
    \A which \in Buckets :
      IF FlatKeys(styleIn) \cap NonNumericKeys = {}
      THEN Bucket(which) = styleIn
      ELSE /\ Bucket(which).kind = "object"
           /\ Bucket(which).alloc = "getFilteredStyle"
           /\ DOMAIN Bucket(which).map = AcceptedKeys(which)

C9_Witness ==
  /\ Returned
  /\ styleIn = ArrObj(<<Undefined, MapObj(EmptyMap, "caller")>>, "caller")
  /\ generalBucket = MapObj(EmptyMap, "getFilteredStyle")

(***************************************************************************)
(* C10: the leaf element has the original component's type and the         *)
(* original's props, key for key and value for value, except that style is *)
(* the static bucket; the call leaves the component, its props and its     *)
(* style input as they were.                                               *)
(***************************************************************************)
C10_LeafKeepsProps ==
  [][WrapStep =>
       /\ args' = args
       /\ result'.child.child.type = args.component.type
       /\ DOMAIN result'.child.child.props = DOMAIN args.component.props \cup {"style"}
       /\ \A p \in DOMAIN args.component.props \ {"style"} :
            result'.child.child.props[p] = args.component.props[p]
       /\ result'.child.child.props.style = getComponentStyles(styleIn)
       /\ BucketKeys(result'.child.child.props.style) \cap excludePropsForComponent = {}]_vars

C10_Witness ==
  /\ Returned
  /\ styleIn.kind = "object"
  /\ "onLayout" \in DOMAIN args.component.props
  /\ leaf.props.onLayout = Fn("handleLayout")
  /\ "opacity" \in BucketKeys(staticBucket)

====
